---- MODULE Spec2Model ----
(***************************************************************************)
(* Dependency-graph resolution engine of emasoft-architect-agent:          *)
(* skills/eaa-planning-patterns/scripts/dependency_resolver.py             *)
(* (class DependencyResolver: load_graph, detect_cycles, topological_sort, *)
(* get_subgraph, filter_tasks).                                            *)
(* and its command line main(), and class TaskTracker of                   *)
(* skills/eaa-planning-patterns/scripts/generate_task_tracker.py           *)
(* (add_task, validate_dependencies, calculate_critical_path) with its     *)
(* command line (parse_plan_file, generate_template, export), and the      *)
(* design document lifecycle of scripts/eaa_design_lifecycle.py            *)
(* (update_status, archive_document, supersede_document).                  *)
(*                                                                         *)
(* Python dicts keep insertion order and the code iterates over them, so a *)
(* dict is modelled as a sequence of entries [k |-> key, v |-> value].     *)
(* Node ids are strings; sorted() compares them lexicographically, which   *)
(* for the one-letter ids used here is the order given by Rank.            *)
(***************************************************************************)
EXTENDS Integers, Sequences, FiniteSets, TLC

\* ------------------------------------------------------------------ bounds
\* Spec: what one run writes into graph files
\* members of "nodes" objects
MaxRecords == 2
\* length of one node's "deps" list
MaxDeps == 2
\* dependency ids
MaxEdges == 3

\* SpecWide: the same, for the graphs of three nodes
WideRecords == 3
WideDeps == 2
WideEdges == 4

\* SpecChain: the same, for chains of three nodes
ChainRecords == 3
ChainDeps == 1
ChainEdges == 2

\* SpecRepeat: the same, for resolvers that remember their last sort
RepeatRecords == 2
RepeatDeps == 1
RepeatEdges == 2

\* SpecCLI: what is written into the graph files the command line is run on
CliRecords == 2
CliDeps == 1
CliEdges == 2

\* SpecTracker: the tasks added to one TaskTracker
MaxTasks == 3
\* length of one task's dependencies list
MaxTaskDeps == 2
\* dependency ids of all tasks together
MaxTaskEdges == 3

\* SpecTrackerWide: the same, for the trackers of four tasks
WideTasks == 4
WideTaskDeps == 1
WideTaskEdges == 2

TrackerBounds == [tasks |-> MaxTasks, deps |-> MaxTaskDeps, edges |-> MaxTaskEdges]

WideTrackerBounds == [tasks |-> WideTasks, deps |-> WideTaskDeps, edges |-> WideTaskEdges]

Bounds == [records |-> MaxRecords, deps |-> MaxDeps, edges |-> MaxEdges]

WideBounds == [records |-> WideRecords, deps |-> WideDeps, edges |-> WideEdges]

ChainBounds == [records |-> ChainRecords, deps |-> ChainDeps, edges |-> ChainEdges]

RepeatBounds == [records |-> RepeatRecords, deps |-> RepeatDeps, edges |-> RepeatEdges]

CliBounds == [records |-> CliRecords, deps |-> CliDeps, edges |-> CliEdges]

\* plans of three tasks run through the tracker's command line (SpecProgram)
ProgramTasks == 3

ProgramDeps == 1

ProgramEdges == 2

ProgramBounds == [tasks |-> ProgramTasks, deps |-> ProgramDeps, edges |-> ProgramEdges]

\* lifecycle commands run on the design documents (SpecLifecycle)
LifeCommands == 2

LifeBounds == [commands |-> LifeCommands]

\* files of three nodes, one of them with two dependencies, loaded and sorted (SpecOrder)
OrderRecords == 3

OrderDeps == 2

OrderEdges == 2

OrderBounds == [records |-> OrderRecords, deps |-> OrderDeps, edges |-> OrderEdges]

\* ------------------------------------------------------------------ ids
Ids == {"a", "b", "c"}

\* the place of an id in str order: an upper-case "T" sorts before the lower-case letters
Rank(x) == CASE x = "a" -> 7 [] x = "b" -> 8 [] x = "c" -> 9
             [] x = "T-001" -> 1 [] x = "T-002" -> 2 [] x = "T-003" -> 3
             [] x = "T-004" -> 4 [] x = "T-005" -> 5 [] x = "T-006" -> 6

\* str.__lt__ on node ids
LexLess(x, y) == Rank(x) < Rank(y)

\* ------------------------------------------------------------------ sequences
Range(s) == {s[i] : i \in 1..Len(s)}

Count(s, x) == Cardinality({i \in 1..Len(s) : s[i] = x})

IndexOf(s, x) == CHOOSE i \in 1..Len(s) : s[i] = x /\ \A j \in 1..(i - 1) : s[j] # x

RECURSIVE InsertSorted(_, _)
InsertSorted(s, x) ==
    IF s = <<>> THEN <<x>>
    ELSE IF LexLess(x, Head(s)) THEN <<x>> \o s
    ELSE <<Head(s)>> \o InsertSorted(Tail(s), x)

RECURSIVE SortedStable(_)
SortedStable(s) ==
    IF s = <<>> THEN <<>>
    ELSE InsertSorted(SortedStable(SubSeq(s, 1, Len(s) - 1)), s[Len(s)])

\* sorted(xs) on a list of ids
sorted(s) == SortedStable(s)

\* ------------------------------------------------------------------ dicts
Keys(d) == [i \in 1..Len(d) |-> d[i].k]

Has(d, key) == \E i \in 1..Len(d) : d[i].k = key

\* d.get(key, default)
Get(d, key, default) ==
    IF Has(d, key) THEN d[CHOOSE i \in 1..Len(d) : d[i].k = key].v ELSE default

\* d[key] = value: a new key goes last, an existing key keeps its position
Put(d, key, value) ==
    IF Has(d, key)
    THEN [i \in 1..Len(d) |-> IF d[i].k = key THEN [k |-> key, v |-> value] ELSE d[i]]
    ELSE Append(d, [k |-> key, v |-> value])

\* ------------------------------------------------------------------ the graph file
\* One member of the "nodes" object: "id": <node data>.
ListData(deps) == [is_dict |-> TRUE, has_deps |-> TRUE, deps_is_list |-> TRUE, deps |-> deps]
\* {"deps": "x"}: deps present and not a list
NonListData == [is_dict |-> TRUE, has_deps |-> TRUE, deps_is_list |-> FALSE, deps |-> <<>>]
\* a node whose value is no dict (a string, a number, null); a dict with no "deps"
\* key differs from it in has_deps alone and loads the same way
ScalarData == [is_dict |-> FALSE, has_deps |-> FALSE, deps_is_list |-> FALSE, deps |-> <<>>]

\* what a member holds when it is written: its deps list, if any, is filled by WriteDep
NewData == {ListData(<<>>), NonListData, ScalarData}

\* top: "ok" ({"nodes": {...}}), "missing" (no such file), "no_nodes" (data is
\* no dict or has no "nodes" key), "nodes_not_dict" ({"nodes": 5})
EmptyFile == [top |-> "ok", members |-> <<>>]

BadTops == {"missing", "no_nodes", "nodes_not_dict"}

\* json.loads on an object: a repeated key keeps its first position and its last value
RECURSIVE ObjectOf(_, _)
ObjectOf(members, d) ==
    IF members = <<>> THEN d
    ELSE ObjectOf(Tail(members), Put(d, Head(members).id, Head(members).data))

json_loads(f) == ObjectOf(f.members, <<>>)

\* ------------------------------------------------------------------ results
NoRet == [kind |-> "none", list |-> <<>>, cycles |-> <<>>, node |-> "", missing |-> {}]

Returned(list) == [NoRet EXCEPT !.kind = "ok", !.list = list]

Raised(kind) == [NoRet EXCEPT !.kind = kind]

\* ------------------------------------------------------------------ load_graph
\* node_data.get("deps", []) if isinstance(node_data, dict) else []
DepsOf(node_data) ==
    IF node_data.is_dict /\ node_data.has_deps THEN node_data.deps ELSE <<>>

\* isinstance(deps, list) for that value
DepsIsList(node_data) ==
    IF node_data.is_dict /\ node_data.has_deps THEN node_data.deps_is_list ELSE TRUE

\* for dep in deps: self.reverse_graph[dep].append(node_id)   (a defaultdict(list))
RECURSIVE AppendDependents(_, _, _)
AppendDependents(rg, deps, node_id) ==
    IF deps = <<>> THEN rg
    ELSE AppendDependents(
             Put(rg, Head(deps), Append(Get(rg, Head(deps), <<>>), node_id)),
             Tail(deps), node_id)

\* the loop over self.nodes.items(); bad is the node whose deps is no list ("" if none)
RECURSIVE BuildAdjacency(_, _, _, _)
BuildAdjacency(items, i, g, rg) ==
    IF i > Len(items) THEN [graph |-> g, reverse_graph |-> rg, bad |-> ""]
    ELSE IF ~DepsIsList(items[i].v) THEN [graph |-> g, reverse_graph |-> rg, bad |-> items[i].k]
    ELSE BuildAdjacency(items, i + 1,
                        Put(g, items[i].k, DepsOf(items[i].v)),
                        AppendDependents(rg, DepsOf(items[i].v), items[i].k))

\* MissingDeps that stops at the first missing id of the list
MissingDeps_One(g, deps) ==
    LET absent == SelectSeq(deps, LAMBDA d : d \notin Range(Keys(g)))
    IN  IF absent = <<>> THEN {} ELSE {absent[1]}

\* missing = set(deps) - all_nodes
MissingDeps(g, deps) == Range(deps) \ Range(Keys(g))

\* FirstDangling that leaves the loop after the first node
FirstDangling_OnlyFirstNode(g) ==
    IF g # <<>> /\ MissingDeps(g, g[1].v) # {} THEN 1 ELSE 0

\* the loop over self.graph.items() that raises at the first node with a missing
\* dependency: the index of that node, 0 if there is none
FirstDangling(g) ==
    IF \E i \in 1..Len(g) : MissingDeps(g, g[i].v) # {}
    THEN CHOOSE i \in 1..Len(g) :
             /\ MissingDeps(g, g[i].v) # {}
             /\ \A j \in 1..(i - 1) : MissingDeps(g, g[j].v) = {}
    ELSE 0

\* self.nodes when it is a dict / when "nodes" held something else
DictNodes(items) == [is_dict |-> TRUE, items |-> items]
OtherNodes == [is_dict |-> FALSE, items |-> <<>>]

\* load_graph that adds to the reverse map it finds instead of starting a new one
load_graph_KeepsReverse(self, f) ==
    IF f.top = "missing" THEN [self EXCEPT !.ret = Raised("FileNotFoundError")]
    ELSE IF f.top = "no_nodes" THEN [self EXCEPT !.ret = Raised("ValueError_format")]
    ELSE IF f.top = "nodes_not_dict"
    THEN [nodes |-> OtherNodes, graph |-> <<>>, reverse_graph |-> self.reverse_graph,
          ret |-> Raised("AttributeError")]
    ELSE LET items == json_loads(f)
             built == BuildAdjacency(items, 1, <<>>, self.reverse_graph)
             d     == FirstDangling(built.graph)
         IN  [nodes |-> DictNodes(items),
              graph |-> built.graph,
              reverse_graph |-> built.reverse_graph,
              ret |-> IF built.bad # ""
                      THEN [Raised("ValueError_deps") EXCEPT !.node = built.bad]
                      ELSE IF d # 0
                      THEN [Raised("ValueError_dangling") EXCEPT
                                !.node = built.graph[d].k,
                                !.missing = MissingDeps(built.graph, built.graph[d].v)]
                      ELSE Returned(<<>>)]

\* load_graph(file_path) on a resolver whose fields are in self: the fields after
\* the call and what the call returned or raised
load_graph(self, f) ==
    IF f.top = "missing" THEN [self EXCEPT !.ret = Raised("FileNotFoundError")]
    ELSE IF f.top = "no_nodes" THEN [self EXCEPT !.ret = Raised("ValueError_format")]
    ELSE IF f.top = "nodes_not_dict"
    THEN [nodes |-> OtherNodes, graph |-> <<>>, reverse_graph |-> <<>>,
          ret |-> Raised("AttributeError")]
    ELSE LET items == json_loads(f)
             built == BuildAdjacency(items, 1, <<>>, <<>>)
             d     == FirstDangling(built.graph)
         IN  [nodes |-> DictNodes(items),
              graph |-> built.graph,
              reverse_graph |-> built.reverse_graph,
              ret |-> IF built.bad # ""
                      THEN [Raised("ValueError_deps") EXCEPT !.node = built.bad]
                      ELSE IF d # 0
                      THEN [Raised("ValueError_dangling") EXCEPT
                                !.node = built.graph[d].k,
                                !.missing = MissingDeps(built.graph, built.graph[d].v)]
                      ELSE Returned(<<>>)]

\* ------------------------------------------------------------------ detect_cycles
NewSearch == [visited |-> {}, rec_stack |-> {}, path |-> <<>>, cycles |-> <<>>]

\* visited.add(node); rec_stack.add(node); path.append(node)
Enter(st, node) ==
    [st EXCEPT !.visited = @ \cup {node}, !.rec_stack = @ \cup {node},
               !.path = Append(@, node)]

\* path.pop(); rec_stack.remove(node)
Leave(st, node) ==
    [st EXCEPT !.path = SubSeq(@, 1, Len(@) - 1), !.rec_stack = @ \ {node}]

\* RecordCycle that does not close the loop: cycle = path[path.index(dep):]
RecordCycle_NoClose(st, dep) ==
    [st EXCEPT !.cycles = Append(@, SubSeq(st.path, IndexOf(st.path, dep), Len(st.path)))]

\* RecordCycle with the slice one off: cycle = path[path.index(dep) + 1:] + [dep]
RecordCycle_OffByOne(st, dep) ==
    [st EXCEPT !.cycles =
        Append(@, SubSeq(st.path, IndexOf(st.path, dep) + 1, Len(st.path)) \o <<dep>>)]

\* cycle = path[path.index(dep):] + [dep]; cycles.append(cycle)
RecordCycle(st, dep) ==
    [st EXCEPT !.cycles =
        Append(@, SubSeq(st.path, IndexOf(st.path, dep), Len(st.path)) \o <<dep>>)]

RECURSIVE dfs(_, _, _)
RECURSIVE dfs_deps(_, _, _, _)
dfs(g, node, st) ==
    Leave(dfs_deps(g, Get(g, node, <<>>), 1, Enter(st, node)), node)

\* the body of "for dep in self.graph.get(node, [])", from the j-th dependency on
dfs_deps(g, deps, j, st) ==
    IF j > Len(deps) THEN st
    ELSE IF deps[j] \notin st.visited
    THEN dfs_deps(g, deps, j + 1, dfs(g, deps[j], st))
    ELSE IF deps[j] \in st.rec_stack
    THEN dfs_deps(g, deps, j + 1, RecordCycle(st, deps[j]))
    ELSE dfs_deps(g, deps, j + 1, st)

\* for node in self.graph: if node not in visited: dfs(node)
RECURSIVE dfs_roots(_, _, _)
dfs_roots(g, i, st) ==
    IF i > Len(g) THEN st
    ELSE dfs_roots(g, i + 1, IF g[i].k \notin st.visited THEN dfs(g, g[i].k, st) ELSE st)

\* detect_cycles that takes its roots in ascending id order
detect_cycles_IdOrder(g) ==
    dfs_roots([i \in 1..Len(g) |-> [k |-> sorted(Keys(g))[i],
                                    v |-> Get(g, sorted(Keys(g))[i], <<>>)]],
              1, NewSearch).cycles

detect_cycles(g) == dfs_roots(g, 1, NewSearch).cycles

\* ------------------------------------------------------------------ topological_sort
\* in_degree = {node: len(deps) for node, deps in self.graph.items()}
InDegree(g) == [n \in Range(Keys(g)) |-> Len(Get(g, n, <<>>))]

\* SeedQueue without sorted(): the roots in dict order
SeedQueue_Unsorted(g) == SelectSeq(Keys(g), LAMBDA n : InDegree(g)[n] = 0)

\* deque(sorted([node for node, degree in in_degree.items() if degree == 0]))
SeedQueue(g) == sorted(SelectSeq(Keys(g), LAMBDA n : InDegree(g)[n] = 0))

\* Relax with the zero test lost: every decremented dependent is queued
Relax_Eager(s, dependent) ==
    [in_degree |-> [s.in_degree EXCEPT ![dependent] = @ - 1],
     queue     |-> Append(s.queue, dependent),
     result    |-> s.result]

\* in_degree[dependent] -= 1; if in_degree[dependent] == 0: queue.append(dependent)
Relax(s, dependent) ==
    [in_degree |-> [s.in_degree EXCEPT ![dependent] = @ - 1],
     queue     |-> IF s.in_degree[dependent] - 1 = 0
                   THEN Append(s.queue, dependent) ELSE s.queue,
     result    |-> s.result]

RECURSIVE RelaxAll(_, _, _)
RelaxAll(s, dependents, j) ==
    IF j > Len(dependents) THEN s
    ELSE RelaxAll(Relax(s, dependents[j]), dependents, j + 1)

\* node = queue.popleft(); result.append(node)
PopLeft(s) ==
    [in_degree |-> s.in_degree, queue |-> Tail(s.queue),
     result |-> Append(s.result, Head(s.queue))]

\* KahnLoop without sorted(): the dependents in the order of the reverse map
RECURSIVE KahnLoop_DictOrder(_, _)
KahnLoop_DictOrder(rg, s) ==
    IF s.queue = <<>> THEN s.result
    ELSE KahnLoop_DictOrder(rg, RelaxAll(PopLeft(s), Get(rg, Head(s.queue), <<>>), 1))

\* while queue: ...
RECURSIVE KahnLoop(_, _)
KahnLoop(rg, s) ==
    IF s.queue = <<>> THEN s.result
    ELSE KahnLoop(rg, RelaxAll(PopLeft(s), sorted(Get(rg, Head(s.queue), <<>>)), 1))

Kahn(g, rg) ==
    KahnLoop(rg, [in_degree |-> InDegree(g), queue |-> SeedQueue(g), result |-> <<>>])

\* CycleCheck that puts only the first cycle into the error
CycleCheck_FirstOnly(cycles) ==
    IF cycles # <<>> THEN [Raised("CircularDependency") EXCEPT !.cycles = <<cycles[1]>>]
    ELSE NoRet

\* what the cycle check at the head of topological_sort makes of detect_cycles' list
CycleCheck(cycles) ==
    IF cycles # <<>> THEN [Raised("CircularDependency") EXCEPT !.cycles = cycles]
    ELSE NoRet

topological_sort(g, rg) ==
    LET checked == CycleCheck(detect_cycles(g))
        result  == Kahn(g, rg)
    IN  IF checked.kind # "none" THEN checked
        ELSE IF Len(result) # Len(g)
        THEN [Raised("IncompleteSort") EXCEPT !.missing = Range(Keys(g)) \ Range(result)]
        ELSE Returned(result)

\* ------------------------------------------------------------------ get_subgraph
\* the BFS over self.graph from the node's direct dependencies: the visited set
\* Closure that stops at the direct dependencies
Closure_DirectOnly(g, queue, visited) == Range(queue)

RECURSIVE Closure(_, _, _)
Closure(g, queue, visited) ==
    IF queue = <<>> THEN visited
    ELSE IF Head(queue) \notin visited
    THEN Closure(g, Tail(queue) \o Get(g, Head(queue), <<>>), visited \cup {Head(queue)})
    ELSE Closure(g, Tail(queue), visited)

\* get_subgraph that answers a node without dependencies before it sorts
get_subgraph_EmptyShortcut(g, rg, node) ==
    IF ~Has(g, node) THEN [Raised("KeyError") EXCEPT !.node = node]
    ELSE IF Get(g, node, <<>>) = <<>> THEN Returned(<<>>)
    ELSE LET all_order == topological_sort(g, rg)
         IN  IF all_order.kind # "ok" THEN all_order
             ELSE Returned(SelectSeq(all_order.list,
                                     LAMBDA n : n \in Closure(g, Get(g, node, <<>>), {})))

\* get_subgraph that sorts before it looks the node up
get_subgraph_SortFirst(g, rg, node) ==
    LET all_order == topological_sort(g, rg)
    IN  IF all_order.kind # "ok" THEN all_order
        ELSE IF ~Has(g, node) THEN [Raised("KeyError") EXCEPT !.node = node]
        ELSE Returned(SelectSeq(all_order.list,
                                LAMBDA n : n \in Closure(g, Get(g, node, <<>>), {})))

get_subgraph(g, rg, node) ==
    IF ~Has(g, node) THEN [Raised("KeyError") EXCEPT !.node = node]
    ELSE LET all_order == topological_sort(g, rg)
         IN  IF all_order.kind # "ok" THEN all_order
             ELSE Returned(SelectSeq(all_order.list,
                                     LAMBDA n : n \in Closure(g, Get(g, node, <<>>), {})))

\* ------------------------------------------------------------------ filter_tasks
\* predicate(node_id, node_data) is given by the set of ids it accepts
\* filter_tasks that returns the matches in the order the predicate met them
filter_tasks_ScanOrder(nodes, g, rg, accepted) ==
    IF ~nodes.is_dict THEN Raised("AttributeError")
    ELSE LET matching  == SelectSeq(Keys(nodes.items), LAMBDA n : n \in accepted)
             all_order == topological_sort(g, rg)
         IN  IF all_order.kind # "ok" THEN all_order
             ELSE Returned(matching)

filter_tasks(nodes, g, rg, accepted) ==
    IF ~nodes.is_dict THEN Raised("AttributeError")
    ELSE LET matching  == SelectSeq(Keys(nodes.items), LAMBDA n : n \in accepted)
             all_order == topological_sort(g, rg)
         IN  IF all_order.kind # "ok" THEN all_order
             ELSE Returned(SelectSeq(all_order.list, LAMBDA n : n \in Range(matching)))

\* ------------------------------------------------------------------ TaskTracker
\* skills/eaa-planning-patterns/scripts/generate_task_tracker.py, class TaskTracker.
\* A task is [task_id, dependencies]; self.tasks is the list of the tasks added.
\* The task ids are the ones parse_plan_file and generate_template give:
\* f"{prefix}-{task_counter:03d}", task_counter counting the tasks from 1.
GeneratedIds == <<"T-001", "T-002", "T-003", "T-004", "T-005", "T-006">>

\* the ids a plan of at most n tasks can name
TaskIds(n) == {GeneratedIds[i] : i \in 1..n}

TaskIdList(tasks) == [i \in 1..Len(tasks) |-> tasks[i].task_id]

\* the dependency lists a task of such a plan can have
DependencyLists(lim) == UNION {[1..n -> TaskIds(lim.tasks)] : n \in 0..lim.deps}

\* the dependency ids of all tasks of the list
EdgeCount(tasks) ==
    LET RECURSIVE Sum(_)
        Sum(i) == IF i = 0 THEN 0 ELSE Len(tasks[i].dependencies) + Sum(i - 1)
    IN  Sum(Len(tasks))

\* graph[task.task_id] = task.dependencies, task by task
RECURSIVE DependencyDict(_, _, _)
DependencyDict(tasks, i, g) ==
    IF i > Len(tasks) THEN g
    ELSE DependencyDict(tasks, i + 1, Put(g, tasks[i].task_id, tasks[i].dependencies))

\* the first (task, dependency), task by task and dependency by dependency, whose
\* dependency is not the id of a task; <<>> if there is none
RECURSIVE FirstMissingFrom(_, _, _)
FirstMissingFrom(tasks, i, j) ==
    IF i > Len(tasks) THEN <<>>
    ELSE IF j > Len(tasks[i].dependencies) THEN FirstMissingFrom(tasks, i + 1, 1)
    ELSE IF tasks[i].dependencies[j] \notin Range(TaskIdList(tasks))
    THEN <<tasks[i].task_id, tasks[i].dependencies[j]>>
    ELSE FirstMissingFrom(tasks, i, j + 1)

FirstMissing(tasks) == FirstMissingFrom(tasks, 1, 1)

\* has_cycle_dfs and the loop over the dependencies of a node; WHITE 0, GRAY 1, BLACK 2
RECURSIVE has_cycle_dfs(_, _, _), has_cycle_neighbors(_, _, _, _)
has_cycle_dfs(g, node, st) ==
    IF st.color[node] = 1
    THEN [st EXCEPT !.found = TRUE,
                    !.cycle = SubSeq(st.path, IndexOf(st.path, node), Len(st.path)) \o <<node>>]
    ELSE IF st.color[node] = 2 THEN st
    ELSE LET entered == [st EXCEPT !.color[node] = 1, !.path = Append(@, node)]
             after   == has_cycle_neighbors(g, Get(g, node, <<>>), 1, entered)
         IN  IF after.found THEN after
             ELSE [after EXCEPT !.path = SubSeq(@, 1, Len(@) - 1), !.color[node] = 2]

has_cycle_neighbors(g, deps, j, st) ==
    IF j > Len(deps) THEN st
    ELSE LET next == has_cycle_dfs(g, deps[j], st)
         IN  IF next.found THEN next ELSE has_cycle_neighbors(g, deps, j + 1, next)

\* for task_id in task_ids: if color[task_id] == 0: if has_cycle_dfs(task_id, []): exit
RECURSIVE CheckEach(_, _, _, _)
CheckEach(g, order, i, st) ==
    IF i > Len(order) THEN st
    ELSE IF st.color[order[i]] # 0 THEN CheckEach(g, order, i + 1, st)
    ELSE LET next == has_cycle_dfs(g, order[i], [st EXCEPT !.path = <<>>])
         IN  IF next.found THEN next ELSE CheckEach(g, order, i + 1, next)

\* validate_dependencies that looks for missing dependencies only
validate_dependencies_NoCycleCheck(tasks, order) ==
    LET missing == FirstMissing(tasks)
    IN  IF missing # <<>>
        THEN [Raised("SystemExit") EXCEPT !.node = missing[1], !.missing = {missing[2]}]
        ELSE Returned(<<>>)

\* order is the order in which the set task_ids is iterated
validate_dependencies(tasks, order) ==
    LET missing == FirstMissing(tasks)
        g       == DependencyDict(tasks, 1, <<>>)
        search  == CheckEach(g, order, 1,
                             [color |-> [t \in Range(order) |-> 0], path |-> <<>>,
                              found |-> FALSE, cycle |-> <<>>])
    IN  IF missing # <<>>
        THEN [Raised("SystemExit") EXCEPT !.node = missing[1], !.missing = {missing[2]}]
        ELSE IF search.found
        THEN [Raised("SystemExit") EXCEPT !.cycles = <<search.cycle>>]
        ELSE Returned(<<>>)

\* ------------------------------------------------------------------ calculate_critical_path
\* predecessor[tid] = None
None == "None"

\* {task.task_id: value for task in self.tasks}
RECURSIVE DictOver(_, _, _, _)
DictOver(tasks, i, value, d) ==
    IF i > Len(tasks) THEN d
    ELSE DictOver(tasks, i + 1, value, Put(d, tasks[i].task_id, value))

\* for dep_id in task.dependencies: graph[dep_id].append(task.task_id);
\*                                  in_degree[task.task_id] += 1
RECURSIVE CountDependencies(_, _, _)
CountDependencies(s, task, j) ==
    IF j > Len(task.dependencies) THEN s
    ELSE CountDependencies(
             [graph     |-> Put(s.graph, task.dependencies[j],
                                Append(Get(s.graph, task.dependencies[j], <<>>), task.task_id)),
              in_degree |-> Put(s.in_degree, task.task_id,
                                Get(s.in_degree, task.task_id, 0) + 1)],
             task, j + 1)

RECURSIVE Dependents(_, _, _)
Dependents(tasks, i, s) ==
    IF i > Len(tasks) THEN s
    ELSE Dependents(tasks, i + 1, CountDependencies(s, tasks[i], 1))

\* Starts that queues the tasks without dependencies last listed first
Starts_Reversed(in_degree) ==
    LET starts == Keys(SelectSeq(in_degree, LAMBDA e : e.v = 0))
    IN  [i \in 1..Len(starts) |-> starts[Len(starts) + 1 - i]]

\* deque([tid for tid, degree in in_degree.items() if degree == 0])
Starts(in_degree) == Keys(SelectSeq(in_degree, LAMBDA e : e.v = 0))

\* Lengthen that keeps the first length a task was given
Lengthen_FirstOnly(s, current, neighbor) ==
    IF Get(s.longest_path, neighbor, 0) = 0
    THEN [s EXCEPT !.longest_path = Put(@, neighbor, Get(s.longest_path, current, 0) + 1),
                   !.predecessor  = Put(@, neighbor, current)]
    ELSE s

\* if longest_path[current] + 1 > longest_path[neighbor]: ...
Lengthen(s, current, neighbor) ==
    IF Get(s.longest_path, current, 0) + 1 > Get(s.longest_path, neighbor, 0)
    THEN [s EXCEPT !.longest_path = Put(@, neighbor, Get(s.longest_path, current, 0) + 1),
                   !.predecessor  = Put(@, neighbor, current)]
    ELSE s

\* Release that queues a task already when one of its dependencies is still open
Release_AtOne(s, neighbor) ==
    [s EXCEPT !.in_degree = Put(@, neighbor, Get(s.in_degree, neighbor, 0) - 1),
              !.queue     = IF Get(s.in_degree, neighbor, 0) - 1 \in {0, 1}
                            THEN Append(@, neighbor) ELSE @]

\* in_degree[neighbor] -= 1; if in_degree[neighbor] == 0: queue.append(neighbor)
Release(s, neighbor) ==
    [s EXCEPT !.in_degree = Put(@, neighbor, Get(s.in_degree, neighbor, 0) - 1),
              !.queue     = IF Get(s.in_degree, neighbor, 0) - 1 = 0
                            THEN Append(@, neighbor) ELSE @]

\* for neighbor in graph[current]: ...
RECURSIVE Neighbors(_, _, _, _)
Neighbors(s, current, neighbors, j) ==
    IF j > Len(neighbors) THEN s
    ELSE Neighbors(Release(Lengthen(s, current, neighbors[j]), neighbors[j]),
                   current, neighbors, j + 1)

\* while queue: current = queue.popleft(); ...
RECURSIVE PathLoop(_, _)
PathLoop(g, s) ==
    IF s.queue = <<>> THEN s
    ELSE PathLoop(g, Neighbors([s EXCEPT !.queue = Tail(@), !.processed = Append(@, Head(s.queue))],
                               Head(s.queue), Get(g, Head(s.queue), <<>>), 1))

\* CriticalEnd that takes the last of the tasks of maximal length
CriticalEnd_Last(longest_path) ==
    longest_path[CHOOSE i \in 1..Len(longest_path) :
                     /\ \A j \in 1..Len(longest_path) : longest_path[j].v <= longest_path[i].v
                     /\ \A j \in (i + 1)..Len(longest_path) :
                            longest_path[j].v < longest_path[i].v].k

\* max(longest_path.items(), key=lambda x: x[1])[0]: the first maximal item of the dict
CriticalEnd(longest_path) ==
    longest_path[CHOOSE i \in 1..Len(longest_path) :
                     /\ \A j \in 1..Len(longest_path) : longest_path[j].v <= longest_path[i].v
                     /\ \A j \in 1..(i - 1) : longest_path[j].v < longest_path[i].v].k

\* while current_node is not None: append, step to the predecessor; then reverse
RECURSIVE WalkBack(_, _, _)
WalkBack(predecessor, current_node, path) ==
    IF current_node = None THEN path
    ELSE WalkBack(predecessor, Get(predecessor, current_node, None), <<current_node>> \o path)

\* the state of calculate_critical_path when its Kahn loop has ended
PathSearch(tasks) ==
    LET built == Dependents(tasks, 1, [graph     |-> DictOver(tasks, 1, <<>>, <<>>),
                                       in_degree |-> DictOver(tasks, 1, 0, <<>>)])
    IN  PathLoop(built.graph,
                 [in_degree    |-> built.in_degree,
                  queue        |-> Starts(built.in_degree),
                  longest_path |-> DictOver(tasks, 1, 0, <<>>),
                  predecessor  |-> DictOver(tasks, 1, None, <<>>),
                  processed    |-> <<>>])

calculate_critical_path(tasks) ==
    LET missing == FirstMissing(tasks)
    IN  IF missing # <<>> THEN [Raised("KeyError") EXCEPT !.node = missing[2]]
        ELSE IF tasks = <<>> THEN Raised("ValueError_empty")
        ELSE LET s == PathSearch(tasks)
             IN  Returned(WalkBack(s.predecessor, CriticalEnd(s.longest_path), <<>>))

\* ------------------------------------------------------------------ state
VARIABLES
    file,           \* the graph file the next load_graph call reads
    written,        \* members and dependency ids written into graph files so far
    nodes,          \* self.nodes
    graph,          \* self.graph: node -> list of dependencies
    reverse_graph,  \* self.reverse_graph: node -> list of dependents
    repeated,       \* the graph the resolver holds came from a file that repeats an id
    op,             \* the last step: the method called, or "write"
    arg,            \* the argument of that call
    ret,            \* what that call returned or raised
    last_sort,      \* SpecRepeat: what topological_sort last gave since the last load_graph
    tasks,          \* TaskTracker.tasks
    cli,            \* the last run of the resolver's command line: arguments and outcome
    program,        \* the run of the task tracker's command line: where it is, what it did
    design          \* the design documents and the last lifecycle command run on them

vars == <<file, written, nodes, graph, reverse_graph, repeated, op, arg, ret,
          last_sort, tasks, cli, program, design>>

resolver == <<nodes, graph, reverse_graph>>

NoArg == [node |-> "", accepted |-> {}]

\* no run of the command line yet
NoRun == [args |-> [valid |-> TRUE, output |-> FALSE, writable |-> TRUE, format |-> "text"],
          exit |-> -1, stdout |-> <<>>, output_file |-> <<>>]

\* DependencyResolver.__init__, and no graph file written yet
\* the task tracker's command line has not been started
NoProgram == [mode |-> "none", pc |-> "none", validated |-> FALSE, validated_on |-> <<>>,
              path |-> NoRet, exported |-> FALSE, exit |-> -1]

\* no lifecycle command run yet
NoCommand == [command |-> "none", uuid |-> "", by |-> "", status |-> "", force |-> FALSE,
              ok |-> FALSE]

\* no design document yet
NoDesign == [docs |-> <<>>, commands |-> 0, last |-> NoCommand]

Init ==
    /\ file = EmptyFile
    /\ written = [records |-> 0, edges |-> 0]
    /\ nodes = DictNodes(<<>>)
    /\ graph = <<>>
    /\ reverse_graph = <<>>
    /\ repeated = FALSE
    /\ op = "init"
    /\ arg = NoArg
    /\ ret = NoRet
    /\ last_sort = NoRet
    /\ tasks = <<>>
    /\ cli = NoRun
    /\ program = NoProgram
    /\ design = NoDesign

\* ------------------------------------------------------------------ the graph file is written
\* The caller writes a graph file member by member and then has it loaded; file is
\* the file being written for the next load_graph call, empty again after the call.
Wrote == op' = "write" /\ arg' = NoArg /\ ret' = NoRet

\* the command line runs on a complete file: no write follows a run
Unread == op # "main"

\* a member "id": data is added to the "nodes" object
WriteMember(id, data, lim) ==
    /\ Unread
    /\ file.top = "ok"
    /\ written.records < lim.records
    /\ file' = [file EXCEPT !.members = Append(@, [id |-> id, data |-> data])]
    /\ written' = [written EXCEPT !.records = @ + 1]
    /\ Wrote
    /\ UNCHANGED <<resolver, repeated, last_sort, tasks, cli, program, design>>

\* a dependency id is added to the deps list of the member written last
WriteDep(dep, lim) ==
    /\ Unread
    /\ file.members # <<>>
    /\ file.members[Len(file.members)].data.deps_is_list
    /\ Len(file.members[Len(file.members)].data.deps) < lim.deps
    /\ written.edges < lim.edges
    /\ file' = [file EXCEPT !.members[Len(file.members)].data.deps = Append(@, dep)]
    /\ written' = [written EXCEPT !.edges = @ + 1]
    /\ Wrote
    /\ UNCHANGED <<resolver, repeated, last_sort, tasks, cli, program, design>>

\* the file is missing, or its top level is not {"nodes": {...}}
WriteBadTop(top, lim) ==
    /\ Unread
    /\ file = EmptyFile
    /\ written.records < lim.records
    /\ file' = [file EXCEPT !.top = top]
    /\ written' = [written EXCEPT !.records = @ + 1]
    /\ Wrote
    /\ UNCHANGED <<resolver, repeated, last_sort, tasks, cli, program, design>>

\* ------------------------------------------------------------------ the resolver's methods
\* A query does not read the graph file, so it is taken between two files, not in the
\* middle of the writing of one: interleaving it with the writes adds no behaviour.
FileClosed == file = EmptyFile

\* two members of the file's "nodes" object have one id
RepeatsId(f) ==
    \E i, j \in 1..Len(f.members) : i # j /\ f.members[i].id = f.members[j].id

LoadGraph ==
    /\ LET after == load_graph([nodes |-> nodes, graph |-> graph,
                                reverse_graph |-> reverse_graph, ret |-> ret], file)
       IN  /\ nodes' = after.nodes
           /\ graph' = after.graph
           /\ reverse_graph' = after.reverse_graph
           /\ ret' = after.ret
    /\ repeated' = IF file.top \in {"missing", "no_nodes"} THEN repeated ELSE RepeatsId(file)
    /\ op' = "load_graph"
    /\ arg' = NoArg
    /\ file' = EmptyFile
    /\ last_sort' = NoRet
    /\ UNCHANGED <<written, tasks, cli, program, design>>

DetectCycles ==
    /\ FileClosed
    /\ op' = "detect_cycles"
    /\ arg' = NoArg
    /\ ret' = [Returned(<<>>) EXCEPT !.cycles = detect_cycles(graph)]
    /\ UNCHANGED <<file, written, resolver, repeated, last_sort, tasks, cli, program, design>>

\* last_sort is a history variable, kept where track is set (SpecRepeat)
TopologicalSort(track) ==
    /\ FileClosed
    /\ op' = "topological_sort"
    /\ arg' = NoArg
    /\ ret' = topological_sort(graph, reverse_graph)
    /\ last_sort' = IF track THEN ret' ELSE last_sort
    /\ UNCHANGED <<file, written, resolver, repeated, tasks, cli, program, design>>

\* GetSubgraph that uses up the reverse map
GetSubgraph_ConsumesReverse(node) ==
    /\ FileClosed
    /\ op' = "get_subgraph"
    /\ arg' = [NoArg EXCEPT !.node = node]
    /\ ret' = get_subgraph(graph, reverse_graph, node)
    /\ reverse_graph' = <<>>
    /\ UNCHANGED <<file, written, nodes, graph, repeated, last_sort, tasks, cli, program, design>>

GetSubgraph(node) ==
    /\ FileClosed
    /\ op' = "get_subgraph"
    /\ arg' = [NoArg EXCEPT !.node = node]
    /\ ret' = get_subgraph(graph, reverse_graph, node)
    /\ UNCHANGED <<file, written, resolver, repeated, last_sort, tasks, cli, program, design>>

\* FilterTasks that drops the rejected nodes from the node table
FilterTasks_DropsRejected(accepted) ==
    /\ FileClosed
    /\ op' = "filter_tasks"
    /\ arg' = [NoArg EXCEPT !.accepted = accepted]
    /\ ret' = filter_tasks(nodes, graph, reverse_graph, accepted)
    /\ nodes' = [nodes EXCEPT !.items = SelectSeq(@, LAMBDA e : e.k \in accepted)]
    /\ UNCHANGED <<file, written, graph, reverse_graph, repeated, last_sort, tasks, cli, program, design>>

FilterTasks(accepted) ==
    /\ FileClosed
    /\ op' = "filter_tasks"
    /\ arg' = [NoArg EXCEPT !.accepted = accepted]
    /\ ret' = filter_tasks(nodes, graph, reverse_graph, accepted)
    /\ UNCHANGED <<file, written, resolver, repeated, last_sort, tasks, cli, program, design>>

\* ------------------------------------------------------------------ main
\* the lines of json.dumps(order, indent=2) + "\n" / of "\n".join(order) + "\n";
\* a line is <<indentation, text, separator>>, an id in quotes in the json format
FormatOutput(order, format) ==
    IF format = "json"
    THEN IF order = <<>> THEN << <<"", "[]", "">> >>
         ELSE << <<"", "[", "">> >>
              \o [i \in 1..Len(order) |->
                     <<"  ", <<"quoted", order[i]>>, IF i < Len(order) THEN "," ELSE "">>]
              \o << <<"", "]", "">> >>
    ELSE IF order = <<>> THEN << <<"", "", "">> >>
         ELSE [i \in 1..Len(order) |-> <<"", order[i], "">>]

\* main that prints the nodes the Kahn loop got through when the sort fails
main_PrintsPartialOrder(f, args) ==
    LET loaded == load_graph([nodes |-> DictNodes(<<>>), graph |-> <<>>,
                              reverse_graph |-> <<>>, ret |-> NoRet], f)
        order  == IF loaded.ret.kind # "ok" THEN loaded.ret
                  ELSE topological_sort(loaded.graph, loaded.reverse_graph)
        output == FormatOutput(Kahn(loaded.graph, loaded.reverse_graph), args.format)
    IN  IF ~args.valid
        THEN [ret |-> Raised("SystemExit"), exit |-> 2, stdout |-> <<>>, output_file |-> <<>>]
        ELSE IF order.kind # "ok"
        THEN [ret |-> order, exit |-> 1, stdout |-> output, output_file |-> <<>>]
        ELSE IF args.output /\ ~args.writable
        THEN [ret |-> Raised("OSError"), exit |-> 1, stdout |-> <<>>, output_file |-> <<>>]
        ELSE [ret |-> order, exit |-> 0,
              stdout      |-> IF args.output THEN <<>> ELSE FormatOutput(order.list, args.format),
              output_file |-> IF args.output THEN FormatOutput(order.list, args.format)
                              ELSE <<>>]

\* main() on graph file f: valid is whether parse_args accepts the command line,
\* output whether --output is given, writable whether atomic_write_text succeeds.
\* The outcome: the call that ended the run, the exit code, the lines printed to
\* stdout and the lines written to the --output file.
main(f, args) ==
    LET loaded == load_graph([nodes |-> DictNodes(<<>>), graph |-> <<>>,
                              reverse_graph |-> <<>>, ret |-> NoRet], f)
        order  == IF loaded.ret.kind # "ok" THEN loaded.ret
                  ELSE topological_sort(loaded.graph, loaded.reverse_graph)
    IN  IF ~args.valid
        THEN [ret |-> Raised("SystemExit"), exit |-> 2, stdout |-> <<>>, output_file |-> <<>>]
        ELSE IF order.kind # "ok"
        THEN [ret |-> order, exit |-> 1, stdout |-> <<>>, output_file |-> <<>>]
        ELSE IF args.output /\ ~args.writable
        THEN [ret |-> Raised("OSError"), exit |-> 1, stdout |-> <<>>, output_file |-> <<>>]
        ELSE [ret |-> order, exit |-> 0,
              stdout      |-> IF args.output THEN <<>> ELSE FormatOutput(order.list, args.format),
              output_file |-> IF args.output THEN FormatOutput(order.list, args.format)
                              ELSE <<>>]

\* the command lines: a --output file that cannot be written is one case, and a
\* command line parse_args rejects is one case
CommandLines ==
    {args \in [valid : BOOLEAN, output : BOOLEAN, writable : BOOLEAN,
               format : {"json", "text"}] :
        /\ ~args.output => args.writable
        /\ ~args.valid => (~args.output /\ args.format = "text")}

Main(args) ==
    /\ LET run == main(file, args)
       IN  /\ ret' = run.ret
           /\ cli' = [args |-> args, exit |-> run.exit, stdout |-> run.stdout,
                      output_file |-> run.output_file]
    /\ op' = "main"
    /\ arg' = NoArg
    /\ UNCHANGED <<file, written, resolver, repeated, last_sort, tasks, program, design>>

Write(lim) ==
    \/ \E id \in Ids, data \in NewData : WriteMember(id, data, lim)
    \/ \E dep \in Ids : WriteDep(dep, lim)
    \/ \E top \in BadTops : WriteBadTop(top, lim)

Call(track) ==
    \/ LoadGraph
    \/ DetectCycles
    \/ TopologicalSort(track)
    \/ \E node \in Ids : GetSubgraph(node)
    \/ \E accepted \in SUBSET Ids : FilterTasks(accepted)

Next == Write(Bounds) \/ Call(FALSE)

Spec == Init /\ [][Next]_vars

NextWide == Write(WideBounds) \/ Call(FALSE)

SpecWide == Init /\ [][NextWide]_vars

\* ------------------------------------------------------------------ the tracker's methods
\* sys.exit(1) in validate_dependencies has ended the program
Exited == op = "validate_dependencies" /\ ret.kind = "SystemExit"

\* add_task(Task(task_id, ..., dependencies=dependencies)) as parse_plan_file calls
\* it: the id is the next generated one. The program adds all its tasks before it
\* validates (main, validate_plan_structure).
AddTask(dependencies, lim) ==
    /\ op \in {"init", "add_task"}
    /\ Len(tasks) < lim.tasks
    /\ EdgeCount(tasks) + Len(dependencies) <= lim.edges
    /\ tasks' = Append(tasks, [task_id |-> GeneratedIds[Len(tasks) + 1],
                               dependencies |-> dependencies])
    /\ op' = "add_task"
    /\ arg' = NoArg
    /\ ret' = NoRet
    /\ UNCHANGED <<file, written, resolver, repeated, last_sort, cli, program, design>>

\* the orders in which a set of ids can be iterated
Orders(S) ==
    {p \in [1..Cardinality(S) -> S] : \A i, j \in 1..Cardinality(S) : i # j => p[i] # p[j]}

\* order: the iteration order of the set task_ids, which the ids' hashes decide
ValidateDependencies(order) ==
    /\ ~Exited
    /\ op' = "validate_dependencies"
    /\ arg' = NoArg
    /\ ret' = validate_dependencies(tasks, order)
    /\ UNCHANGED <<file, written, resolver, repeated, last_sort, tasks, cli, program, design>>

CalculateCriticalPath ==
    /\ ~Exited
    /\ op' = "calculate_critical_path"
    /\ arg' = NoArg
    /\ ret' = calculate_critical_path(tasks)
    /\ UNCHANGED <<file, written, resolver, repeated, last_sort, tasks, cli, program, design>>

Track(lim) ==
    \/ \E dependencies \in DependencyLists(lim) : AddTask(dependencies, lim)
    \/ \E order \in Orders(Range(TaskIdList(tasks))) : ValidateDependencies(order)
    \/ CalculateCriticalPath

NextTracker == Track(TrackerBounds)

SpecTracker == Init /\ [][NextTracker]_vars

NextTrackerWide == Track(WideTrackerBounds)

SpecTrackerWide == Init /\ [][NextTrackerWide]_vars

\* ------------------------------------------------------------------ the tracker's command line
\* main() of generate_task_tracker.py, step by step. The modes: "validate" is
\* --validate --from-plan (validate_plan_structure), "plan" is --from-plan,
\* "template" is neither (generate_template).
Modes == {"validate", "plan", "template"}

StartProgram(mode) ==
    /\ program = NoProgram
    /\ op = "init"
    /\ program' = [NoProgram EXCEPT !.mode = mode, !.pc = "parse"]
    /\ UNCHANGED <<file, written, resolver, repeated, op, arg, ret, last_sort, tasks, cli,
                   design>>

\* --validate without --from-plan: main ends the program with exit code 1
StartWithoutPlan ==
    /\ program = NoProgram
    /\ op = "init"
    /\ program' = [NoProgram EXCEPT !.mode = "validate", !.pc = "exited", !.exit = 1]
    /\ UNCHANGED <<file, written, resolver, repeated, op, arg, ret, last_sort, tasks, cli,
                   design>>

\* parse_plan_file ends the program: the plan file is missing or has no phase
ParseFails ==
    /\ program.pc = "parse"
    /\ program.mode \in {"validate", "plan"}
    /\ tasks = <<>>
    /\ program' = [program EXCEPT !.pc = "exited", !.exit = 1]
    /\ UNCHANGED <<file, written, resolver, repeated, op, arg, ret, last_sort, tasks, cli,
                   design>>

\* one add_task of parse_plan_file or generate_template; a task of a template has
\* no dependencies
ParseTask(dependencies, lim) ==
    /\ program.pc = "parse"
    /\ program.mode = "template" => dependencies = <<>>
    /\ AddTask(dependencies, lim)

\* tracker.validate_dependencies() in validate_plan_structure, and in main under
\* "if tracker.tasks"
ProgramValidate(order) ==
    /\ program.pc = "parse"
    /\ program.mode = "validate" \/ tasks # <<>>
    /\ op' = "validate_dependencies"
    /\ arg' = NoArg
    /\ ret' = validate_dependencies(tasks, order)
    /\ program' = IF ret'.kind = "ok"
                  THEN [program EXCEPT !.pc = "validated", !.validated = TRUE,
                                       !.validated_on = tasks]
                  ELSE [program EXCEPT !.pc = "exited", !.exit = 1]
    /\ UNCHANGED <<file, written, resolver, repeated, last_sort, tasks, cli, design>>

\* the rest of validate_plan_structure: "if tracker.tasks:" the critical path is
\* computed and printed
ProgramCriticalPath ==
    /\ program.mode = "validate"
    /\ program.pc = "validated"
    /\ LET path == IF tasks # <<>> THEN calculate_critical_path(tasks) ELSE NoRet
       IN  /\ program' = [program EXCEPT !.pc = "exited", !.path = path,
                                         !.exit = IF path.kind \in {"ok", "none"} THEN 0 ELSE 1]
           /\ op' = IF tasks # <<>> THEN "calculate_critical_path" ELSE op
           /\ ret' = IF tasks # <<>> THEN path ELSE ret
    /\ arg' = NoArg
    /\ UNCHANGED <<file, written, resolver, repeated, last_sort, tasks, cli, design>>

\* ReadyToExport without the validation in between
ReadyToExport_Unvalidated == program.pc \in {"parse", "validated"}

\* main has come to tracker.export(args.output): the tasks were validated, or
\* there is no task
ReadyToExport == program.pc = "validated" \/ (program.pc = "parse" /\ tasks = <<>>)

\* tracker.export(args.output): ext is the suffix of the output path, written
\* whether atomic_write_text / atomic_write_json writes the file. export_json
\* computes the critical path "if self.tasks"; another suffix than .csv and .json
\* ends the program with exit code 1.
ProgramExport(ext, writable) ==
    /\ program.mode \in {"plan", "template"}
    /\ ReadyToExport
    /\ LET path == IF ext = "json" /\ tasks # <<>> THEN calculate_critical_path(tasks)
                   ELSE NoRet
           done == ext \in {"csv", "json"} /\ path.kind \in {"ok", "none"} /\ writable
       IN  /\ program' = [program EXCEPT !.pc = "exited", !.path = path, !.exported = done,
                                         !.exit = IF done THEN 0 ELSE 1]
           /\ op' = IF path.kind # "none" THEN "calculate_critical_path" ELSE op
           /\ ret' = IF path.kind # "none" THEN path ELSE ret
    /\ arg' = NoArg
    /\ UNCHANGED <<file, written, resolver, repeated, last_sort, tasks, cli, design>>

NextProgram ==
    \/ \E mode \in Modes : StartProgram(mode)
    \/ StartWithoutPlan
    \/ ParseFails
    \/ \E dependencies \in DependencyLists(ProgramBounds) :
           ParseTask(dependencies, ProgramBounds)
    \/ \E order \in Orders(Range(TaskIdList(tasks))) : ProgramValidate(order)
    \/ ProgramCriticalPath
    \/ \E ext \in {"csv", "json", "txt"}, writable \in BOOLEAN : ProgramExport(ext, writable)

SpecProgram == Init /\ [][NextProgram]_vars

\* runs of the command line on the graph files written
NextCLI ==
    \/ Write(CliBounds)
    \/ \E args \in CommandLines : Main(args)

SpecCLI == Init /\ [][NextCLI]_vars

NextChain == Write(ChainBounds) \/ Call(FALSE)

SpecChain == Init /\ [][NextChain]_vars

\* the same calls as Spec, with what topological_sort gave remembered
NextRepeat == Write(RepeatBounds) \/ Call(TRUE)

SpecRepeat == Init /\ [][NextRepeat]_vars

\* graph files loaded and sorted, no other query in between
NextOrder ==
    \/ Write(OrderBounds)
    \/ LoadGraph
    \/ TopologicalSort(FALSE)

SpecOrder == Init /\ [][NextOrder]_vars

\* ------------------------------------------------------------------ the design document lifecycle
VALID_STATUSES ==
    {"draft", "review", "approved", "implemented", "deprecated", "superseded", "archived"}

VALID_TRANSITIONS ==
    [s \in VALID_STATUSES |->
        CASE s = "draft"       -> {"review", "deprecated"}
          [] s = "review"      -> {"draft", "approved", "deprecated"}
          [] s = "approved"    -> {"implemented", "deprecated", "superseded"}
          [] s = "implemented" -> {"deprecated", "superseded"}
          [] OTHER             -> {}]

\* str.lower() on the status words of the model
lower(word) ==
    CASE word = "Draft" -> "draft" [] word = "Approved" -> "approved" [] OTHER -> word

\* the uuids of the documents, the dates datetime.now() gives
Uuids == <<"DOC-1", "DOC-2">>

Dates == {"2026-01-01", "2026-01-02"}

\* a document as create_frontmatter writes it: the status given, the date of the
\* day, the two links null; None is a document whose status line was taken out by
\* hand
NewDocuments ==
    [status : {"draft", "Draft", "wip", None}, updated : {"2026-01-01"},
     supersedes : {"null"}, superseded_by : {"null"}, archived : {FALSE}]

\* find_document: found is whether the search script prints the path of the document
find_document(docs, uuid, found) == found /\ Has(docs, uuid)

\* get_document_status: the word of the first status line in lower case, None
\* without such a line
get_document_status(doc) == IF doc.status = None THEN None ELSE lower(doc.status)

\* VALID_TRANSITIONS.get(current_status, set())
Allowed(current_status) ==
    IF current_status \in VALID_STATUSES THEN VALID_TRANSITIONS[current_status] ELSE {}

\* re.sub(r"^status:\s*\S+", ...) and re.sub(r"^updated:\s*\S+", ...): a line that
\* is not there is not added
Restamp(doc, status, today) ==
    [doc EXCEPT !.status = IF @ = None THEN None ELSE status, !.updated = today]

\* update_status that stamps the date before it checks the transition
update_status_StampsFirst(docs, uuid, new_status, force, found, today) ==
    IF lower(new_status) \notin VALID_STATUSES THEN [docs |-> docs, ok |-> FALSE]
    ELSE IF ~find_document(docs, uuid, found) THEN [docs |-> docs, ok |-> FALSE]
    ELSE LET doc == Get(docs, uuid, <<>>)
             current_status == get_document_status(doc)
         IN  IF current_status # None /\ lower(new_status) \notin Allowed(current_status)
                /\ ~force
             THEN [docs |-> Put(docs, uuid, [doc EXCEPT !.updated = today]), ok |-> FALSE]
             ELSE [docs |-> Put(docs, uuid, Restamp(doc, lower(new_status), today)),
                   ok |-> TRUE]

\* update_status(uuid_str, new_status, project_root, force): the documents after
\* the call and the value returned
update_status(docs, uuid, new_status, force, found, today) ==
    IF lower(new_status) \notin VALID_STATUSES THEN [docs |-> docs, ok |-> FALSE]
    ELSE IF ~find_document(docs, uuid, found) THEN [docs |-> docs, ok |-> FALSE]
    ELSE LET doc == Get(docs, uuid, <<>>)
             current_status == get_document_status(doc)
         IN  IF current_status # None /\ lower(new_status) \notin Allowed(current_status)
                /\ ~force
             THEN [docs |-> docs, ok |-> FALSE]
             ELSE [docs |-> Put(docs, uuid, Restamp(doc, lower(new_status), today)),
                   ok |-> TRUE]

\* archive_document(uuid_str, project_root, reason, superseded_by): no look at the
\* status the document has; "" is no --superseded-by
archive_document(docs, uuid, superseded_by, found, today) ==
    IF ~find_document(docs, uuid, found) THEN [docs |-> docs, ok |-> FALSE]
    ELSE LET doc == Restamp(Get(docs, uuid, <<>>), "archived", today)
         IN  [docs |-> Put(docs, uuid,
                           [doc EXCEPT !.archived = TRUE,
                                       !.superseded_by = IF superseded_by # ""
                                                         THEN superseded_by ELSE @]),
              ok |-> TRUE]

\* supersede_document(old_uuid, new_uuid, project_root): the old document is
\* written first, the new one is read after that
supersede_document(docs, old_uuid, new_uuid, found_old, found_new, today) ==
    IF ~find_document(docs, old_uuid, found_old) THEN [docs |-> docs, ok |-> FALSE]
    ELSE IF ~find_document(docs, new_uuid, found_new) THEN [docs |-> docs, ok |-> FALSE]
    ELSE LET old  == Restamp(Get(docs, old_uuid, <<>>), "superseded", today)
             docs1 == Put(docs, old_uuid, [old EXCEPT !.superseded_by = new_uuid])
             new  == Get(docs1, new_uuid, <<>>)
         IN  [docs |-> Put(docs1, new_uuid,
                           [new EXCEPT !.supersedes = old_uuid, !.updated = today]),
              ok |-> TRUE]

\* the uuids the documents and the commands can have
UuidSet == {Uuids[i] : i \in 1..Len(Uuids)}

\* a design document is created, the documents in the order of their uuids
WriteDocument(doc) ==
    /\ Len(design.docs) < Len(Uuids)
    /\ design' = [design EXCEPT !.docs = Put(@, Uuids[Len(design.docs) + 1], doc)]
    /\ UNCHANGED <<file, written, resolver, repeated, op, arg, ret, last_sort, tasks, cli,
                   program>>

\* the documents a lifecycle command leaves, and what the command was
Ran(after, command) ==
    [docs |-> after.docs, commands |-> design.commands + 1,
     last |-> [command EXCEPT !.ok = after.ok]]

\* cmd_status: the status command
Status(uuid, new_status, force, found, today, lim) ==
    /\ design.commands < lim.commands
    /\ design' = Ran(update_status(design.docs, uuid, new_status, force, found, today),
                     [NoCommand EXCEPT !.command = "status", !.uuid = uuid,
                                       !.status = new_status, !.force = force])
    /\ UNCHANGED <<file, written, resolver, repeated, op, arg, ret, last_sort, tasks, cli,
                   program>>

\* cmd_archive: the archive command
Archive(uuid, superseded_by, found, today, lim) ==
    /\ design.commands < lim.commands
    /\ design' = Ran(archive_document(design.docs, uuid, superseded_by, found, today),
                     [NoCommand EXCEPT !.command = "archive", !.uuid = uuid,
                                       !.by = superseded_by])
    /\ UNCHANGED <<file, written, resolver, repeated, op, arg, ret, last_sort, tasks, cli,
                   program>>

\* cmd_supersede: the supersede command
Supersede(old_uuid, new_uuid, found_old, found_new, today, lim) ==
    /\ design.commands < lim.commands
    /\ design' = Ran(supersede_document(design.docs, old_uuid, new_uuid, found_old,
                                        found_new, today),
                     [NoCommand EXCEPT !.command = "supersede", !.uuid = old_uuid,
                                       !.by = new_uuid])
    /\ UNCHANGED <<file, written, resolver, repeated, op, arg, ret, last_sort, tasks, cli,
                   program>>

\* the status words a status command is given
StatusWords == VALID_STATUSES \cup {"Approved", "wip"}

Lifecycle(lim) ==
    \/ \E doc \in NewDocuments : WriteDocument(doc)
    \/ \E uuid \in UuidSet, new_status \in StatusWords, force, found \in BOOLEAN,
          today \in Dates : Status(uuid, new_status, force, found, today, lim)
    \/ \E uuid \in UuidSet, superseded_by \in UuidSet \cup {""}, found \in BOOLEAN,
          today \in Dates : Archive(uuid, superseded_by, found, today, lim)
    \/ \E old_uuid, new_uuid \in UuidSet, found_old, found_new \in BOOLEAN,
          today \in Dates : Supersede(old_uuid, new_uuid, found_old, found_new, today, lim)

NextLifecycle == Lifecycle(LifeBounds)

SpecLifecycle == Init /\ [][NextLifecycle]_vars

\* ------------------------------------------------------------------ graphs, as the claims speak of them
NodeSet(g) == Range(Keys(g))

DepSet(g, n) == Range(Get(g, n, <<>>))

\* the (node, missing dependency) references of a graph
Dangling(g) == {<<n, d>> \in NodeSet(g) \X Ids : d \in DepSet(g, n) /\ d \notin NodeSet(g)}

\* the ids reached from the ids of S over any number of dependency edges
RECURSIVE ReachedFrom(_, _)
ReachedFrom(g, S) ==
    LET T == S \cup UNION {DepSet(g, x) : x \in S}
    IN  IF T = S THEN S ELSE ReachedFrom(g, T)

\* the ids reached from n over one or more dependency edges
Reachable(g, n) == ReachedFrom(g, DepSet(g, n))

HasCycle(g) == \E n \in NodeSet(g) : n \in Reachable(g, n)

\* the resolver holds a graph that load_graph accepts: every node's deps is a list,
\* every node is in the dependency map with these deps, every dependency is a node
Accepted ==
    /\ nodes.is_dict
    /\ \A i \in 1..Len(nodes.items) : DepsIsList(nodes.items[i].v)
    /\ Keys(graph) = Keys(nodes.items)
    /\ \A i \in 1..Len(graph) : graph[i].v = DepsOf(nodes.items[i].v)
    /\ Dangling(graph) = {}

\* the position of id x in a list that holds it
Pos(list, x) == IndexOf(list, x)

Sorted == op = "topological_sort"

\* ------------------------------------------------------------------ claims
\* C1: on a graph that load_graph accepts and that has no dependency cycle,
\* topological_sort returns a list that holds every node id exactly once and
\* puts every dependency of a node at an earlier position than the node.
C1_SortOrdersEveryNode ==
    (Sorted /\ Accepted /\ ~HasCycle(graph)) =>
        /\ ret.kind = "ok"
        /\ Len(ret.list) = Len(graph)
        /\ \A n \in NodeSet(graph) : Count(ret.list, n) = 1
        /\ \A n \in NodeSet(graph) : \A d \in DepSet(graph, n) :
               Pos(ret.list, d) < Pos(ret.list, n)

\* a sort of a graph in which a node lists the same dependency twice
C1_Witness ==
    /\ Sorted /\ Accepted /\ ~HasCycle(graph)
    /\ \E i \in 1..Len(graph) : Len(graph[i].v) = 2 /\ graph[i].v[1] = graph[i].v[2]
    /\ ret.kind = "ok"

\* C2: on a graph with a dependency cycle (a self-loop included) topological_sort
\* raises the circular-dependency error, the error carries every cycle that
\* detect_cycles returns, and no ordering is returned.
C2_CycleMakesSortRaise ==
    (Sorted /\ HasCycle(graph)) =>
        /\ ret.kind = "CircularDependency"
        /\ ret.cycles = detect_cycles(graph)
        /\ ret.cycles # <<>>
        /\ ret.list = <<>>

\* a sort that raised with two cycles in the error
C2_Witness ==
    Sorted /\ HasCycle(graph) /\ ret.kind = "CircularDependency" /\ Len(ret.cycles) = 2

\* a reported cycle is a loop of the graph: closed, its other ids pairwise distinct,
\* each id listing the next as a dependency
GenuineLoop(g, c) ==
    /\ Len(c) >= 2
    /\ c[1] = c[Len(c)]
    /\ \A i, j \in 1..(Len(c) - 1) : i # j => c[i] # c[j]
    /\ \A i \in 1..(Len(c) - 1) : c[i + 1] \in DepSet(g, c[i])

\* C3: detect_cycles returns a non-empty list exactly when the graph has a cycle,
\* and every cycle it reports is a genuine loop of the graph.
C3_CyclesReportedAreLoops ==
    (op = "detect_cycles") =>
        /\ (ret.cycles # <<>>) <=> HasCycle(graph)
        /\ \A i \in 1..Len(ret.cycles) : GenuineLoop(graph, ret.cycles[i])

\* detect_cycles reported a loop over two nodes
C3_Witness ==
    /\ op = "detect_cycles"
    /\ \E i \in 1..Len(ret.cycles) : Len(ret.cycles[i]) = 3

\* the nodes not yet output whose dependencies have all been output
Eligible(g, done) == {n \in NodeSet(g) \ done : DepSet(g, n) \subseteq done}

Smallest(S) == CHOOSE x \in S : \A y \in S : x = y \/ LexLess(x, y)

\* C4: at every step of topological_sort on an acyclic graph the node appended is the
\* lexicographically smallest of the nodes not yet output whose dependencies have
\* all been output.
C4_SmallestEligibleFirst ==
    (Sorted /\ Accepted /\ ~HasCycle(graph) /\ ret.kind = "ok") =>
        \A i \in 1..Len(ret.list) :
            ret.list[i] = Smallest(Eligible(graph, {ret.list[j] : j \in 1..(i - 1)}))

\* C5: two nodes of an acyclic graph that both have no dependencies come out of
\* topological_sort in lexicographic order.
C5_RootsInLexOrder ==
    (Sorted /\ Accepted /\ ~HasCycle(graph)) =>
        /\ ret.kind = "ok"
        /\ \A A, B \in NodeSet(graph) :
               (DepSet(graph, A) = {} /\ DepSet(graph, B) = {} /\ LexLess(A, B))
                   => Pos(ret.list, A) < Pos(ret.list, B)

\* a sort of a graph whose file lists a root before a lexicographically smaller root
C5_Witness ==
    /\ Sorted /\ Accepted /\ ~HasCycle(graph) /\ ret.kind = "ok"
    /\ \E i, j \in 1..Len(graph) :
           i < j /\ graph[i].v = <<>> /\ graph[j].v = <<>> /\ LexLess(graph[j].k, graph[i].k)

Loaded == op = "load_graph"

\* the load_graph call did not get as far as reading the "nodes" object
TopLevelErrors == {"FileNotFoundError", "ValueError_format"}

\* the (node, missing dependency) references of the "nodes" object as it was read
InputDangling ==
    {<<n, d>> \in NodeSet(nodes.items) \X Ids :
        d \in Range(DepsOf(Get(nodes.items, n, ScalarData))) /\ d \notin NodeSet(nodes.items)}

\* C6: load_graph fails whenever some node lists a dependency id that is not a node,
\* the dangling-dependency error names a referencing node and ids it misses, and a
\* load succeeds only if every dependency id resolves to a node.
C6_DanglingReferenceRejected ==
    Loaded =>
        /\ (Dangling(graph) # {}) => ret.kind # "ok"
        /\ (ret.kind = "ok") => (Accepted /\ InputDangling = {})
        /\ (/\ nodes.is_dict
            /\ \A i \in 1..Len(nodes.items) : DepsIsList(nodes.items[i].v)
            /\ InputDangling # {}
            /\ ret.kind \notin TopLevelErrors) => ret.kind = "ValueError_dangling"
        /\ (ret.kind = "ValueError_dangling") =>
               /\ ret.missing # {}
               /\ \A d \in ret.missing : <<ret.node, d>> \in InputDangling

\* a load that raised for a dangling reference of the second node of the file
C6_Witness ==
    /\ Loaded /\ ret.kind = "ValueError_dangling"
    /\ Len(graph) >= 2 /\ ret.node = graph[2].k

\* C7 as stated: the error reports every dangling reference of the graph.
C7_AllDanglingReported ==
    (Loaded /\ ret.kind = "ValueError_dangling") =>
        {<<ret.node, d>> : d \in ret.missing} = Dangling(graph)

\* C7 as amended: the error reports the first node, in the order of the file, that
\* has a dependency that is no node, and every missing dependency of that node.
C7_FirstOffenderReported ==
    (Loaded /\ ret.kind = "ValueError_dangling") =>
        /\ Has(graph, ret.node)
        /\ ret.missing = DepSet(graph, ret.node) \ NodeSet(graph)
        /\ ret.missing # {}
        /\ \A i \in 1..(IndexOf(Keys(graph), ret.node) - 1) :
               DepSet(graph, graph[i].k) \subseteq NodeSet(graph)

\* a load that raised while two nodes had dangling references
C7_Witness ==
    /\ Loaded /\ ret.kind = "ValueError_dangling"
    /\ Cardinality({p[1] : p \in Dangling(graph)}) = 2

Queries == {"detect_cycles", "topological_sort", "get_subgraph", "filter_tasks"}

\* C8: a file in which an id is repeated is rejected by load_graph, and no query is
\* answered on a graph in which one record replaced another.
C8_RepeatedIdRejected ==
    /\ (Loaded /\ repeated) => ret.kind # "ok"
    /\ (op \in Queries /\ repeated) => ret.kind # "ok"

\* the elementary cycles of a graph: the lists of distinct nodes in which every node
\* lists the next as a dependency and the last lists the first
ElementaryLoops(g) ==
    {p \in UNION {[1..k -> NodeSet(g)] : k \in 1..Len(g)} :
        /\ \A i, j \in 1..Len(p) : i # j => p[i] # p[j]
        /\ \A i \in 1..Len(p) : p[(i % Len(p)) + 1] \in DepSet(g, p[i])}

\* c is loop p, started at some member and closed
Reports(c, p) ==
    /\ Len(c) = Len(p) + 1
    /\ c[Len(c)] = c[1]
    /\ \E r \in 0..(Len(p) - 1) : \A j \in 1..Len(p) : c[j] = p[((j - 1 + r) % Len(p)) + 1]

\* C9: detect_cycles reports every elementary cycle of the graph.
C9_EveryElementaryCycleReported ==
    (op = "detect_cycles") =>
        \A p \in ElementaryLoops(graph) :
            \E i \in 1..Len(ret.cycles) : Reports(ret.cycles[i], p)

SelfLoops(g) == {n \in NodeSet(g) : n \in DepSet(g, n)}

\* C10: a node that lists itself as a dependency is reported by detect_cycles as
\* the cycle [A, A], and it makes topological_sort raise the circular-dependency error.
C10_SelfLoopIsACycle ==
    /\ (op = "detect_cycles") =>
           \A n \in SelfLoops(graph) : \E i \in 1..Len(ret.cycles) : ret.cycles[i] = <<n, n>>
    /\ (Sorted /\ SelfLoops(graph) # {}) =>
           /\ ret.kind = "CircularDependency"
           /\ \A n \in SelfLoops(graph) :
                  \E i \in 1..Len(ret.cycles) : ret.cycles[i] = <<n, n>>

\* detect_cycles reported [A, A] for a node that also lies on a longer loop
C10_Witness ==
    /\ op = "detect_cycles"
    /\ \E n \in SelfLoops(graph) :
           /\ \E i \in 1..Len(ret.cycles) : ret.cycles[i] = <<n, n>>
           /\ \E i \in 1..Len(ret.cycles) : Len(ret.cycles[i]) > 2 /\ n \in Range(ret.cycles[i])

\* list keeps the ids of S, each once, in the relative order they have in order
OrderedLike(list, S, order) ==
    /\ Range(list) = S
    /\ \A x \in S : Count(list, x) = 1
    /\ \A x, y \in S : (Pos(list, x) < Pos(list, y)) <=> (Pos(order, x) < Pos(order, y))

\* C13: on an acyclic graph get_subgraph(N), N a node, returns the ids reached from N
\* over one or more dependency edges and no other, N never among them, each once, in
\* the relative order topological_sort gives them.
C13_SubgraphIsReachableSetInSortOrder ==
    (op = "get_subgraph" /\ Accepted /\ ~HasCycle(graph) /\ Has(graph, arg.node)) =>
        /\ ret.kind = "ok"
        /\ arg.node \notin Range(ret.list)
        /\ OrderedLike(ret.list, Reachable(graph, arg.node),
                       topological_sort(graph, reverse_graph).list)

\* get_subgraph returned two ids, one of them reached only through the other, in
\* another order than the search met them
C13_Witness ==
    /\ op = "get_subgraph" /\ Accepted /\ ~HasCycle(graph) /\ ret.kind = "ok"
    /\ Len(ret.list) = 2
    /\ DepSet(graph, arg.node) = {ret.list[2]}
    /\ DepSet(graph, ret.list[2]) = {ret.list[1]}

\* C14: on an acyclic graph filter_tasks returns the node ids the predicate accepts
\* and no other, each once, in the relative order topological_sort gives them,
\* whatever the order in which the predicate met them.
C14_FilterIsSubsequenceOfSort ==
    (op = "filter_tasks" /\ Accepted /\ ~HasCycle(graph)) =>
        /\ ret.kind = "ok"
        /\ OrderedLike(ret.list, NodeSet(graph) \cap arg.accepted,
                       topological_sort(graph, reverse_graph).list)

\* filter_tasks returned two ids in the reverse of the order of the node table
C14_Witness ==
    /\ op = "filter_tasks" /\ Accepted /\ ~HasCycle(graph) /\ ret.kind = "ok"
    /\ Len(ret.list) = 2
    /\ Pos(Keys(nodes.items), ret.list[2]) < Pos(Keys(nodes.items), ret.list[1])

\* the nodes that lie on a cycle
OnCycle(g) == {n \in NodeSet(g) : n \in Reachable(g, n)}

\* C15: on a graph with a cycle get_subgraph, for a node of the graph, and
\* filter_tasks raise the circular-dependency error and return no list, wherever
\* the cycle lies.
C15_CycleFailsSubgraphAndFilter ==
    (/\ op \in {"get_subgraph", "filter_tasks"}
     /\ HasCycle(graph)
     /\ op = "get_subgraph" => Has(graph, arg.node)) =>
        /\ ret.kind = "CircularDependency"
        /\ ret.cycles # <<>>
        /\ ret.list = <<>>

\* get_subgraph raised for a node that neither lies on a cycle nor reaches one
C15_Witness ==
    /\ op = "get_subgraph" /\ Accepted /\ HasCycle(graph) /\ Has(graph, arg.node)
    /\ ({arg.node} \cup Reachable(graph, arg.node)) \cap OnCycle(graph) = {}
    /\ ret.kind = "CircularDependency"

\* C16: get_subgraph raises the unknown-node error for the requested id, and returns
\* no list, whenever that id is not a node of the graph, a cycle in the graph or not.
C16_UnknownNodeRaisesFirst ==
    (op = "get_subgraph" /\ ~Has(graph, arg.node)) =>
        /\ ret.kind = "KeyError"
        /\ ret.node = arg.node
        /\ ret.list = <<>>
        /\ ret.cycles = <<>>

\* get_subgraph raised the unknown-node error on a graph that has a cycle
C16_Witness ==
    /\ op = "get_subgraph" /\ ~Has(graph, arg.node) /\ HasCycle(graph)
    /\ ret.kind = "KeyError"

\* C17: a step of detect_cycles, topological_sort, get_subgraph or filter_tasks,
\* returning or raising, leaves self.nodes, self.graph and self.reverse_graph as
\* they were; a step that changes one of them is a step of load_graph.
C17_QueriesLeaveResolverUnchanged ==
    [][/\ op' \in Queries => UNCHANGED resolver
       /\ ~(UNCHANGED resolver) => op' = "load_graph"]_vars

\* a query raised on a resolver that holds a graph with nodes
C17_Witness ==
    /\ op \in Queries /\ ret.kind \notin {"ok", "none"}
    /\ graph # <<>> /\ reverse_graph # <<>>

FileGraph == [i \in 1..Len(json_loads(file)) |->
                 [k |-> json_loads(file)[i].k, v |-> DepsOf(json_loads(file)[i].v)]]

\* the graph file is one that loads and sorts: a "nodes" object whose deps are
\* lists of node ids, without a cycle
FileSorts ==
    /\ file.top = "ok"
    /\ \A i \in 1..Len(json_loads(file)) : DepsIsList(json_loads(file)[i].v)
    /\ Dangling(FileGraph) = {}
    /\ ~HasCycle(FileGraph)

\* C19: the command line exits with 0 exactly when the graph file loads and sorts
\* and the output is written, and the ordering is then on stdout or in the --output
\* file; it exits with another code on every error, and then nothing is printed to
\* stdout and nothing is written to the --output file.
C19_ExitCodeAndNoPartialOutput ==
    (op = "main") =>
        /\ cli.exit = 0 <=> (/\ cli.args.valid
                             /\ FileSorts
                             /\ cli.args.output => cli.args.writable)
        /\ cli.exit # 0 => (cli.stdout = <<>> /\ cli.output_file = <<>>)
        /\ cli.exit = 0 =>
               /\ ret.kind = "ok"
               /\ Range(ret.list) = NodeSet(FileGraph)
               /\ IF cli.args.output
                  THEN cli.stdout = <<>> /\ cli.output_file = FormatOutput(ret.list, cli.args.format)
                  ELSE cli.output_file = <<>> /\ cli.stdout = FormatOutput(ret.list, cli.args.format)

\* a run that failed on a cycle of a graph of which one node could have been output
C19_Witness ==
    /\ op = "main" /\ cli.exit = 1 /\ ret.kind = "CircularDependency"
    /\ \E n \in NodeSet(FileGraph) : DepSet(FileGraph, n) = {}
    /\ cli.stdout = <<>>

\* ------------------------------------------------------------------ claims on the tracker
\* the tracker's tasks as a dependency map: task id -> dependencies
TaskGraph == DependencyDict(tasks, 1, <<>>)

\* every dependency of every task is the id of a task
Resolved == \A i \in 1..Len(tasks) : Range(tasks[i].dependencies) \subseteq NodeSet(TaskGraph)

\* the number of tasks of the longest dependency chain that ends at n (g acyclic)
RECURSIVE ChainTo(_, _)
ChainTo(g, n) ==
    IF DepSet(g, n) = {} THEN 1
    ELSE 1 + (CHOOSE m \in {ChainTo(g, d) : d \in DepSet(g, n)} :
                 \A k \in {ChainTo(g, d) : d \in DepSet(g, n)} : k <= m)

LongestChain(g) ==
    CHOOSE m \in {ChainTo(g, n) : n \in NodeSet(g)} :
        \A k \in {ChainTo(g, n) : n \in NodeSet(g)} : k <= m

\* list is a dependency chain of g from a task without dependencies
IsChain(g, list) ==
    /\ list # <<>>
    /\ Range(list) \subseteq NodeSet(g)
    /\ DepSet(g, list[1]) = {}
    /\ \A i \in 1..(Len(list) - 1) : list[i] \in DepSet(g, list[i + 1])

CriticalPathOf == op = "calculate_critical_path" /\ tasks # <<>> /\ Resolved

\* C11: on tasks without a dependency cycle whose dependencies all resolve,
\* calculate_critical_path returns a chain in which each task is a dependency of the
\* next, which starts at a task without dependencies and has as many tasks as the
\* longest dependency chain of the graph.
C11_CriticalPathIsALongestChain ==
    (CriticalPathOf /\ ~HasCycle(TaskGraph)) =>
        /\ ret.kind = "ok"
        /\ IsChain(TaskGraph, ret.list)
        /\ Len(ret.list) = LongestChain(TaskGraph)

\* a critical path of three tasks whose last task also depends on the first
C11_Witness ==
    /\ CriticalPathOf /\ ~HasCycle(TaskGraph) /\ ret.kind = "ok"
    /\ Len(ret.list) = 3
    /\ ret.list[1] \in DepSet(TaskGraph, ret.list[3])

\* the tasks at which a longest dependency chain ends
ChainEnds(g) == {n \in NodeSet(g) : ChainTo(g, n) = LongestChain(g)}

\* the first id of list that is in S
FirstOf(list, S) == list[CHOOSE i \in 1..Len(list) :
                             list[i] \in S /\ \A j \in 1..(i - 1) : list[j] \notin S]

\* the order in which the Kahn loop of calculate_critical_path takes the tasks
TopologicalOrder == PathSearch(tasks).processed

\* C12 as stated: of the tasks that share the maximal length, the critical path
\* ends at the one that comes first in topological order.
C12_TieEndsAtFirstInTopologicalOrder ==
    (CriticalPathOf /\ ~HasCycle(TaskGraph) /\ ret.kind = "ok") =>
        ret.list[Len(ret.list)] = FirstOf(TopologicalOrder, ChainEnds(TaskGraph))

\* C12 as amended: of the tasks that share the maximal length, the critical path
\* ends at the one that comes first in the task list.
C12_TieEndsAtFirstListed ==
    (CriticalPathOf /\ ~HasCycle(TaskGraph) /\ ret.kind = "ok") =>
        ret.list[Len(ret.list)] = FirstOf(TaskIdList(tasks), ChainEnds(TaskGraph))

\* a critical path was computed where the first of the maximal tasks in the task
\* list is not the first of them in topological order
C12_Witness ==
    /\ CriticalPathOf /\ ~HasCycle(TaskGraph) /\ ret.kind = "ok"
    /\ Cardinality(ChainEnds(TaskGraph)) >= 2
    /\ FirstOf(TaskIdList(tasks), ChainEnds(TaskGraph))
           # FirstOf(TopologicalOrder, ChainEnds(TaskGraph))

\* C20: validate_dependencies ends the program with exit code 1 exactly when some
\* task depends on an id that is no task or the dependencies have a cycle, a task
\* that depends on itself included; otherwise it returns, and in both cases the
\* task list is the one it was called on.
C20_ValidateExitsOnMissingOrCycle ==
    [][(op' = "validate_dependencies") =>
           /\ tasks' = tasks
           /\ ret'.kind = "SystemExit" <=> (~Resolved \/ HasCycle(TaskGraph))
           /\ ret'.kind = "ok" <=> (Resolved /\ ~HasCycle(TaskGraph))]_vars

\* validate_dependencies ended the program for a cycle of two tasks, all
\* dependencies resolving and a third task lying on no cycle
C20_Witness ==
    /\ op = "validate_dependencies" /\ ret.kind = "SystemExit"
    /\ Resolved /\ SelfLoops(TaskGraph) = {}
    /\ Cardinality(OnCycle(TaskGraph)) = 2
    /\ Len(tasks) = 3

\* C21: in every graph state the resolver holds after load_graph calls, when
\* detect_cycles reports no cycle the Kahn loop of topological_sort outputs every
\* node, so the "Topological sort incomplete" error is never raised.
C21_NoCycleMeansCompleteSort ==
    (Sorted /\ detect_cycles(graph) = <<>>) =>
        /\ ret.kind # "IncompleteSort"
        /\ Len(Kahn(graph, reverse_graph)) = Len(graph)

\* the graphs with the nodes and dependency lists of g, the nodes in another order
Reorderings(g) == {[i \in 1..Len(g) |-> g[p[i]]] : p \in Orders(1..Len(g))}

\* the nodes from which some cycle of g is reached
ReachesCycle(g) == {n \in NodeSet(g) : \E m \in ReachedFrom(g, {n}) : m \in Reachable(g, m)}

\* C22 as stated: detect_cycles starts its search from the unvisited nodes in
\* ascending id order, so the cycle list it reports (the node each cycle starts at
\* included) is the same for a graph with the same nodes and edges whose nodes
\* come in another order.
C22_CyclesSameInAnyNodeOrder ==
    (op = "detect_cycles") =>
        \A g \in Reorderings(graph) : detect_cycles(g) = ret.cycles

\* C22 as amended: detect_cycles starts its search from the unvisited nodes in the
\* order of the dependency map, so the first cycle it reports lies among the nodes
\* reached from the first node of the map that reaches a cycle; whether any cycle
\* is reported is the same for every order of the nodes.
C22_RootsInMapOrder ==
    (op = "detect_cycles") =>
        /\ (ret.cycles # <<>>) =>
               /\ ReachesCycle(graph) # {}
               /\ Range(ret.cycles[1]) \subseteq
                      ReachedFrom(graph, {FirstOf(Keys(graph), ReachesCycle(graph))})
        /\ \A g \in Reorderings(graph) : (detect_cycles(g) = <<>>) <=> (ret.cycles = <<>>)

\* detect_cycles ran on a graph of two separate loops whose map lists the
\* lexicographically larger node first
C22_Witness ==
    /\ op = "detect_cycles"
    /\ Len(graph) = 2
    /\ LexLess(graph[2].k, graph[1].k)
    /\ graph[1].v = <<graph[1].k>>
    /\ graph[2].v = <<graph[2].k>>
    /\ Len(ret.cycles) = 2

\* the reverse map of dependency map g, built as load_graph builds it
RECURSIVE InverseFrom(_, _, _)
InverseFrom(g, i, rg) ==
    IF i > Len(g) THEN rg
    ELSE InverseFrom(g, i + 1, AppendDependents(rg, g[i].v, g[i].k))

\* what topological_sort gives for the dependency graph of the tasks
SortOfTasks == topological_sort(TaskGraph, InverseFrom(TaskGraph, 1, <<>>))

\* the task lists that hold the tasks of the tracker in another order
Relistings == {[i \in 1..Len(tasks) |-> tasks[p[i]]] : p \in Orders(1..Len(tasks))}

\* C23 as stated: calculate_critical_path takes the tasks in the order
\* topological_sort outputs for the same dependency graph, so its result is the
\* same for every task list that holds the same tasks and dependencies in
\* another order.
C23_CriticalPathSameInAnyListing ==
    (CriticalPathOf /\ ~HasCycle(TaskGraph)) =>
        /\ TopologicalOrder = SortOfTasks.list
        /\ \A listing \in Relistings : calculate_critical_path(listing) = ret

\* C23 as amended: on a task list in ascending id order calculate_critical_path
\* takes the tasks in the order topological_sort outputs for the same dependency
\* graph; for the same tasks listed in another order it returns a dependency
\* chain of the same length, which need not be the same chain.
C23_SortOrderOnAscendingListing ==
    (CriticalPathOf /\ ~HasCycle(TaskGraph)) =>
        /\ SortOfTasks.kind = "ok"
        /\ TopologicalOrder = SortOfTasks.list
        /\ \A listing \in Relistings :
               /\ calculate_critical_path(listing).kind = "ok"
               /\ IsChain(TaskGraph, calculate_critical_path(listing).list)
               /\ Len(calculate_critical_path(listing).list) = Len(ret.list)

\* a critical path of two tasks was computed for three tasks, two of which end a
\* longest chain, and another listing of the tasks gives the other chain
C23_Witness ==
    /\ CriticalPathOf /\ ~HasCycle(TaskGraph) /\ ret.kind = "ok"
    /\ Len(tasks) = 3
    /\ Len(ret.list) = 2
    /\ Cardinality(ChainEnds(TaskGraph)) = 2
    /\ \E listing \in Relistings : calculate_critical_path(listing) # ret

\* C24: after every successful load_graph, a reload on a resolver that already
\* held a graph included, every dependency id in the dependency map is a node and
\* the reverse map is the exact inverse of the dependency map just loaded: m is
\* listed as a dependent of d as often as d is listed as a dependency of m, and
\* nothing of an earlier graph is left.
C24_ReverseMapIsInverseAfterLoad ==
    (Loaded /\ ret.kind = "ok") =>
        /\ Dangling(graph) = {}
        /\ NodeSet(reverse_graph) \subseteq NodeSet(graph)
        /\ \A d, m \in Ids :
               Count(Get(reverse_graph, d, <<>>), m) = Count(Get(graph, m, <<>>), d)

\* a file of one node without dependencies was loaded by a resolver for which a
\* file with a dependency had been written and loaded before
C24_Witness ==
    /\ Loaded /\ ret.kind = "ok"
    /\ written.records = 2 /\ written.edges >= 1
    /\ Len(graph) = 1 /\ graph[1].v = <<>>

\* C25: a load_graph call that raises (dangling dependency, deps that is no list,
\* malformed top level, missing file) leaves the node table, the dependency map
\* and the reverse map as they were before the call, so that later queries answer
\* for the last graph loaded with success.
C25_FailedLoadLeavesResolver ==
    [][(op' = "load_graph" /\ ret'.kind # "ok") => UNCHANGED resolver]_vars

\* the lists that hold the items of list in another order
Rearranged(list) == {[i \in 1..Len(list) |-> list[q[i]]] : q \in Orders(1..Len(list))}

\* the graphs with the nodes of g in the order of g, from the i-th on, each
\* dependency list in any order
RECURSIVE ListingsOf(_, _)
ListingsOf(g, i) ==
    IF i > Len(g) THEN {<<>>}
    ELSE {<<[k |-> g[i].k, v |-> v]>> \o rest :
              v \in Rearranged(g[i].v), rest \in ListingsOf(g, i + 1)}

\* the graphs with the nodes and dependencies of g, the nodes and each dependency
\* list in any order
Reshuffles(g) == UNION {Reorderings(h) : h \in ListingsOf(g, 1)}

\* C26: the result of topological_sort depends only on the set of nodes and on the
\* dependency edges: an acyclic graph and every graph with the same nodes and
\* dependencies, the nodes or the dependency lists supplied in another order, sort
\* to the same list.
C26_SortIgnoresSupplyOrder ==
    (Sorted /\ Accepted /\ ~HasCycle(graph)) =>
        \A g \in Reshuffles(graph) :
            topological_sort(g, InverseFrom(g, 1, <<>>)) = ret

\* a sort of three nodes, the first supplied with two different dependencies, the
\* larger id first, and the nodes not in id order
C26_Witness ==
    /\ Sorted /\ Accepted /\ ~HasCycle(graph) /\ ret.kind = "ok"
    /\ Len(graph) = 3
    /\ Len(graph[1].v) = 2
    /\ LexLess(graph[1].v[2], graph[1].v[1])
    /\ LexLess(graph[3].k, graph[2].k)

\* C27: in a run of the task tracker's command line (main, validate_plan_structure)
\* calculate_critical_path runs only after validate_dependencies has returned
\* normally on the same task list, which is not empty; and when validation fails
\* no tracker file is exported and no critical path computed.
C27_CriticalPathOnlyAfterValidation ==
    /\ (program.path.kind # "none") =>
           /\ program.validated
           /\ program.validated_on = tasks
           /\ tasks # <<>>
    /\ program.exported => (tasks = <<>> \/ (program.validated /\ program.validated_on = tasks))
    /\ (program.mode # "none" /\ op = "validate_dependencies" /\ ret.kind = "SystemExit") =>
           /\ ~program.exported
           /\ program.path.kind = "none"
           /\ program.exit = 1

\* a run on a plan wrote the .json tracker with a critical path of two tasks
C27_Witness ==
    /\ program.mode = "plan"
    /\ program.exported
    /\ program.path.kind = "ok"
    /\ Len(program.path.list) = 2

\* C28: on every task list whose dependencies all resolve, cyclic ones included,
\* calculate_critical_path comes to an end and returns: its Kahn loop dequeues each
\* task at most once, and the walk back over the predecessor links visits no task
\* twice.
C28_CriticalPathSearchEnds ==
    CriticalPathOf =>
        /\ ret.kind = "ok"
        /\ \A n \in NodeSet(TaskGraph) :
               /\ Count(TopologicalOrder, n) <= 1
               /\ Count(ret.list, n) <= 1
        /\ Range(TopologicalOrder) \subseteq NodeSet(TaskGraph)
        /\ Range(ret.list) \subseteq NodeSet(TaskGraph)
        /\ HasCycle(TaskGraph) => Len(TopologicalOrder) < Len(tasks)

\* a critical path of two tasks was returned for three tasks two of which depend
\* on each other, the path ending on that cycle
C28_Witness ==
    /\ CriticalPathOf /\ HasCycle(TaskGraph) /\ ret.kind = "ok"
    /\ Len(tasks) = 3
    /\ Len(ret.list) = 2
    /\ ret.list[2] \in OnCycle(TaskGraph)

\* the status of the document with that uuid as get_document_status reads it
StatusOf(docs, uuid) == get_document_status(Get(docs, uuid, [status |-> None]))

\* the step is a lifecycle command
Commanded == design'.commands = design.commands + 1

\* C29: update_status without force changes the status of a document from s to t
\* only if t is in VALID_TRANSITIONS[s]; a rejected transition returns failure and
\* leaves the status and the updated date of the document as they were.
C29_StatusFollowsTransitions ==
    [][(Commanded /\ design'.last.command = "status" /\ ~design'.last.force) =>
           \A uuid \in UuidSet :
               LET s == StatusOf(design.docs, uuid)
                   t == StatusOf(design'.docs, uuid)
               IN  /\ (s # t) =>
                          /\ s \in VALID_STATUSES
                          /\ t \in VALID_TRANSITIONS[s]
                          /\ uuid = design'.last.uuid
                          /\ t = lower(design'.last.status)
                          /\ design'.last.ok
                   /\ (/\ uuid = design'.last.uuid
                       /\ Has(design.docs, uuid)
                       /\ s # None
                       /\ lower(design'.last.status) \notin Allowed(s)) =>
                          /\ ~design'.last.ok
                          /\ Get(design'.docs, uuid, <<>>) = Get(design.docs, uuid, <<>>)]_vars

\* a status command without force was rejected for a document in review, which an
\* earlier status command had put into review
C29_Witness ==
    /\ design.last.command = "status" /\ ~design.last.force /\ ~design.last.ok
    /\ design.commands = 2
    /\ Has(design.docs, design.last.uuid)
    /\ StatusOf(design.docs, design.last.uuid) = "review"
    /\ design.last.status = "implemented"

\* the states from which VALID_TRANSITIONS lets no status command go on
Terminal == {s \in VALID_STATUSES : VALID_TRANSITIONS[s] = {}}

\* C30: once the status of a document is deprecated, superseded or archived, no
\* lifecycle command that runs without force (status, archive, supersede) changes
\* the status of the document again.
C30_TerminalStatusStays ==
    [][(Commanded /\ ~design'.last.force) =>
           \A uuid \in UuidSet :
               StatusOf(design.docs, uuid) \in Terminal =>
                   StatusOf(design'.docs, uuid) = StatusOf(design.docs, uuid)]_vars

====
